---- MODULE Spec2Model ----
(***************************************************************************)
(* Model of assignment1/producer_consumer.py: class ProducerConsumer.      *)
(* One producer thread drains source_container into a queue.Queue, one     *)
(* consumer thread moves the queue's entries to destination_container,     *)
(* the calling thread runs start() and wait_completion().                  *)
(* Every step is one statement of the source (one bytecode-level effect on *)
(* the shared state), so every interleaving of the three threads is a      *)
(* behaviour of the model; time.sleep(delay) is a step of its own.         *)
(***************************************************************************)
EXTENDS Integers, Sequences, FiniteSets, TLC

\* ---- bounds of the model ----
MaxLen == 3      \* longest source_data list that is enumerated
MaxCap == 2      \* largest max_queue_size that is enumerated
MaxStatsCalls == 2   \* most get_stats() calls the caller makes in one run
MaxRows == 3         \* most rows of a loaded CSV file that are enumerated
MaxTop == 3          \* largest n of top_products_by_revenue(n) that is enumerated
MantissaBits == 3    \* significand width of the modelled float (a Python float has 53)

\* Python's None: the value producer() enqueues as sentinel (line 68) and
\* consumer() tests with "item is None" (line 82).
None == "None"

\* the values a caller can put in source_data; None is a legal list element
Items == {"a", "b", None}

\* a local variable that has not been assigned yet
Unbound == "<unbound>"

\* all lists source_data can be, up to the bound
SourceLists == UNION {[1..k -> Items] : k \in 0..MaxLen}

\* all values of max_queue_size; queue.Queue(maxsize) accepts every integer
\* and treats maxsize <= 0 as "no limit"
QueueSizes == 0..MaxCap

VARIABLES
    source_data,            \* the caller's list passed to __init__
    maxsize,                \* shared_queue.maxsize
    source_container,       \* self.source_container
    destination_container,  \* self.destination_container
    shared_queue,           \* the entries of self.shared_queue, head first
    unfinished_tasks,       \* shared_queue.unfinished_tasks
    items_produced,         \* self.items_produced
    items_consumed,         \* self.items_consumed
    counter_lock,           \* holder of self.counter_lock
    producer_thread,        \* self.producer_thread: None, or where it stands
    consumer_thread,        \* self.consumer_thread: None, or where it stands
    p_item,                 \* local "item" of producer()
    c_item,                 \* local "item" of consumer()
    caller,                 \* position of the thread that uses the object
    stats,                  \* the values get_stats() has evaluated, in dict order
    return_to,              \* where the caller was when it called get_stats()
    stats_calls,            \* number of get_stats() calls made so far
    orphan_producer,        \* producer thread of an earlier start(): None, or where it stands
    orphan_consumer,        \* consumer thread of an earlier start(): None, or where it stands
    orphan_p_item,          \* local "item" of the earlier producer thread
    orphan_c_item,          \* local "item" of the earlier consumer thread
    data,                   \* SalesAnalysis.data: the rows of the CSV file
    query,                  \* the SalesAnalysis method called last, with its argument
    result                  \* what that call returned

containers == <<source_data, source_container, destination_container>>
counters   == <<items_produced, items_consumed, counter_lock>>
channel    == <<maxsize, shared_queue, unfinished_tasks>>
threads    == <<producer_thread, consumer_thread, p_item, c_item>>
observer   == <<stats, return_to, stats_calls>>
orphans    == <<orphan_producer, orphan_consumer, orphan_p_item, orphan_c_item>>
sales      == <<data, query, result>>
others     == <<observer, orphans, sales>>
vars       == <<containers, counters, channel, threads, caller, others>>

\* ---- queue.Queue ----
\* QueueFull with the limit one too low: a queue of maxsize 1 takes nothing
QueueFull_one_too_low == maxsize > 0 /\ Len(shared_queue) >= maxsize - 1

\* Queue.full() as put() tests it: only a positive maxsize limits the queue
QueueFull == maxsize > 0 /\ Len(shared_queue) >= maxsize

\* put() can complete
CanPut == ~QueueFull

\* get() can complete
CanGet == shared_queue # <<>>

\* ---- __init__ ----
Init ==
    /\ source_data \in SourceLists
    /\ maxsize \in QueueSizes
    /\ source_container = source_data
    /\ destination_container = <<>>
    /\ shared_queue = <<>>
    /\ unfinished_tasks = 0
    /\ items_produced = 0
    /\ items_consumed = 0
    /\ counter_lock = "free"
    /\ producer_thread = None
    /\ consumer_thread = None
    /\ p_item = Unbound
    /\ c_item = Unbound
    /\ caller = "idle"
    /\ stats = <<>>
    /\ return_to = "idle"
    /\ stats_calls = 0
    /\ orphan_producer = None
    /\ orphan_consumer = None
    /\ orphan_p_item = Unbound
    /\ orphan_c_item = Unbound
    /\ data = <<>>
    /\ query = <<"none">>
    /\ result = <<>>

\* ---- producer(), lines 42-69 ----
\* producer_while with the loop test off by one: the loop is left while one
\* item is still in source_container
producer_while_early_exit ==
    /\ producer_thread = "while"
    /\ producer_thread' = IF Len(source_container) > 1 THEN "pop" ELSE "put_sentinel"
    /\ UNCHANGED <<containers, counters, channel, consumer_thread, p_item, c_item, caller, others>>

\* line 53: while self.source_container
producer_while ==
    /\ producer_thread = "while"
    /\ producer_thread' = IF source_container # <<>> THEN "pop" ELSE "put_sentinel"
    /\ UNCHANGED <<containers, counters, channel, consumer_thread, p_item, c_item, caller, others>>

\* producer_pop on a source_container that is the caller's list itself, as
\* when __init__ stores source_data without list(): the pop empties both
producer_pop_aliased ==
    /\ producer_thread = "pop"
    /\ source_container # <<>>
    /\ p_item' = Head(source_container)
    /\ source_container' = Tail(source_container)
    /\ source_data' = Tail(source_container)
    /\ producer_thread' = "put"
    /\ UNCHANGED <<destination_container, counters, channel, consumer_thread, c_item, caller, others>>

\* line 55: item = self.source_container.pop(0), on a non-empty list
producer_pop ==
    /\ producer_thread = "pop"
    /\ source_container # <<>>
    /\ p_item' = Head(source_container)
    /\ source_container' = Tail(source_container)
    /\ producer_thread' = "put"
    /\ UNCHANGED <<source_data, destination_container, counters, channel, consumer_thread, c_item, caller, others>>

\* producer_put in a loop body without lines 62-63: the item is not counted
producer_put_uncounted ==
    /\ producer_thread = "put"
    /\ CanPut
    /\ shared_queue' = Append(shared_queue, p_item)
    /\ unfinished_tasks' = unfinished_tasks + 1
    /\ producer_thread' = "sleep"
    /\ UNCHANGED <<containers, counters, maxsize, consumer_thread, p_item, c_item, caller, others>>

\* line 58: self.shared_queue.put(item), blocks while the queue is full
producer_put ==
    /\ producer_thread = "put"
    /\ CanPut
    /\ shared_queue' = Append(shared_queue, p_item)
    /\ unfinished_tasks' = unfinished_tasks + 1
    /\ producer_thread' = "acquire"
    /\ UNCHANGED <<containers, counters, maxsize, consumer_thread, p_item, c_item, caller, others>>

\* producer_acquire that does not wait for the lock to be free
producer_acquire_no_wait ==
    /\ producer_thread = "acquire"
    /\ counter_lock' = "producer"
    /\ producer_thread' = "increment"
    /\ UNCHANGED <<containers, items_produced, items_consumed, channel, consumer_thread, p_item, c_item, caller, others>>

\* line 62: with self.counter_lock (enter)
producer_acquire ==
    /\ producer_thread = "acquire"
    /\ counter_lock = "free"
    /\ counter_lock' = "producer"
    /\ producer_thread' = "increment"
    /\ UNCHANGED <<containers, items_produced, items_consumed, channel, consumer_thread, p_item, c_item, caller, others>>

\* producer_increment written as self.items_produced + 1: nothing is stored
producer_increment_not_stored ==
    /\ producer_thread = "increment"
    /\ items_produced' = items_produced
    /\ producer_thread' = "release"
    /\ UNCHANGED <<containers, items_consumed, counter_lock, channel, consumer_thread, p_item, c_item, caller, others>>

\* line 63: self.items_produced += 1
producer_increment ==
    /\ producer_thread = "increment"
    /\ items_produced' = items_produced + 1
    /\ producer_thread' = "release"
    /\ UNCHANGED <<containers, items_consumed, counter_lock, channel, consumer_thread, p_item, c_item, caller, others>>

\* line 62: with self.counter_lock (exit)
producer_release ==
    /\ producer_thread = "release"
    /\ counter_lock' = "free"
    /\ producer_thread' = "sleep"
    /\ UNCHANGED <<containers, items_produced, items_consumed, channel, consumer_thread, p_item, c_item, caller, others>>

\* line 65: time.sleep(delay), then back to the loop test
producer_sleep ==
    /\ producer_thread = "sleep"
    /\ producer_thread' = "while"
    /\ UNCHANGED <<containers, counters, channel, consumer_thread, p_item, c_item, caller, others>>

\* producer_put_sentinel with the sentinel counted as a produced item
producer_put_sentinel_counted ==
    /\ producer_thread = "put_sentinel"
    /\ CanPut
    /\ shared_queue' = Append(shared_queue, None)
    /\ unfinished_tasks' = unfinished_tasks + 1
    /\ items_produced' = items_produced + 1
    /\ producer_thread' = "terminated"
    /\ UNCHANGED <<containers, items_consumed, counter_lock, maxsize, consumer_thread, p_item, c_item, caller, others>>

\* line 68: self.shared_queue.put(None), blocks while the queue is full;
\* the function returns after it and the thread ends
producer_put_sentinel ==
    /\ producer_thread = "put_sentinel"
    /\ CanPut
    /\ shared_queue' = Append(shared_queue, None)
    /\ unfinished_tasks' = unfinished_tasks + 1
    /\ producer_thread' = "terminated"
    /\ UNCHANGED <<containers, counters, maxsize, consumer_thread, p_item, c_item, caller, others>>

producer ==
    \/ producer_while
    \/ producer_pop
    \/ producer_put
    \/ producer_acquire
    \/ producer_increment
    \/ producer_release
    \/ producer_sleep
    \/ producer_put_sentinel

\* ---- consumer(), lines 71-97 ----
\* line 79: item = self.shared_queue.get(), blocks while the queue is empty
consumer_get ==
    /\ consumer_thread = "get"
    /\ CanGet
    /\ c_item' = Head(shared_queue)
    /\ shared_queue' = Tail(shared_queue)
    /\ consumer_thread' = "is_none"
    /\ UNCHANGED <<containers, counters, maxsize, unfinished_tasks, producer_thread, p_item, caller, others>>

\* line 82: if item is None
consumer_is_none ==
    /\ consumer_thread = "is_none"
    /\ consumer_thread' = IF c_item = None THEN "last_task_done" ELSE "append"
    /\ UNCHANGED <<containers, counters, channel, producer_thread, p_item, c_item, caller, others>>

\* consumer_last_task_done with the sentinel stored before the break
consumer_last_task_done_stores ==
    /\ consumer_thread = "last_task_done"
    /\ destination_container' = Append(destination_container, c_item)
    /\ unfinished_tasks' = unfinished_tasks - 1
    /\ consumer_thread' = "terminated"
    /\ UNCHANGED <<source_data, source_container, counters, maxsize, shared_queue, producer_thread, p_item, c_item, caller, others>>

\* lines 84-85: self.shared_queue.task_done(); break; the thread ends
consumer_last_task_done ==
    /\ consumer_thread = "last_task_done"
    /\ unfinished_tasks' = unfinished_tasks - 1
    /\ consumer_thread' = "terminated"
    /\ UNCHANGED <<containers, counters, maxsize, shared_queue, producer_thread, p_item, c_item, caller, others>>

\* consumer_append written as insert(0, item): the item goes to the front
consumer_append_at_front ==
    /\ consumer_thread = "append"
    /\ destination_container' = <<c_item>> \o destination_container
    /\ consumer_thread' = "acquire"
    /\ UNCHANGED <<source_data, source_container, counters, channel, producer_thread, p_item, c_item, caller, others>>

\* line 89: self.destination_container.append(item)
consumer_append ==
    /\ consumer_thread = "append"
    /\ destination_container' = Append(destination_container, c_item)
    /\ consumer_thread' = "acquire"
    /\ UNCHANGED <<source_data, source_container, counters, channel, producer_thread, p_item, c_item, caller, others>>

\* line 92: with self.counter_lock (enter)
consumer_acquire ==
    /\ consumer_thread = "acquire"
    /\ counter_lock = "free"
    /\ counter_lock' = "consumer"
    /\ consumer_thread' = "increment"
    /\ UNCHANGED <<containers, items_produced, items_consumed, channel, producer_thread, p_item, c_item, caller, others>>

\* consumer_increment written as self.items_consumed += len(destination_container)
consumer_increment_by_size ==
    /\ consumer_thread = "increment"
    /\ items_consumed' = items_consumed + Len(destination_container)
    /\ consumer_thread' = "release"
    /\ UNCHANGED <<containers, items_produced, counter_lock, channel, producer_thread, p_item, c_item, caller, others>>

\* line 93: self.items_consumed += 1
consumer_increment ==
    /\ consumer_thread = "increment"
    /\ items_consumed' = items_consumed + 1
    /\ consumer_thread' = "release"
    /\ UNCHANGED <<containers, items_produced, counter_lock, channel, producer_thread, p_item, c_item, caller, others>>

\* line 92: with self.counter_lock (exit)
consumer_release ==
    /\ consumer_thread = "release"
    /\ counter_lock' = "free"
    /\ consumer_thread' = "task_done"
    /\ UNCHANGED <<containers, items_produced, items_consumed, channel, producer_thread, p_item, c_item, caller, others>>

\* line 96: self.shared_queue.task_done()
consumer_task_done ==
    /\ consumer_thread = "task_done"
    /\ unfinished_tasks' = unfinished_tasks - 1
    /\ consumer_thread' = "sleep"
    /\ UNCHANGED <<containers, counters, maxsize, shared_queue, producer_thread, p_item, c_item, caller, others>>

\* line 97: time.sleep(delay), then back to the head of the loop
consumer_sleep ==
    /\ consumer_thread = "sleep"
    /\ consumer_thread' = "get"
    /\ UNCHANGED <<containers, counters, channel, producer_thread, p_item, c_item, caller, others>>

consumer ==
    \/ consumer_get
    \/ consumer_is_none
    \/ consumer_last_task_done
    \/ consumer_append
    \/ consumer_acquire
    \/ consumer_increment
    \/ consumer_release
    \/ consumer_task_done
    \/ consumer_sleep

\* ---- start(), lines 99-112 ----
\* lines 103-108: the two Thread objects are created, not yet running
start_create ==
    /\ caller = "idle"
    /\ producer_thread' = "created"
    /\ consumer_thread' = "created"
    /\ caller' = "start_producer"
    /\ UNCHANGED <<containers, counters, channel, p_item, c_item, others>>

\* line 111: self.producer_thread.start()
start_producer ==
    /\ caller = "start_producer"
    /\ producer_thread' = "while"
    /\ caller' = "start_consumer"
    /\ UNCHANGED <<containers, counters, channel, consumer_thread, p_item, c_item, others>>

\* line 112: self.consumer_thread.start(); start() returns
start_consumer ==
    /\ caller = "start_consumer"
    /\ consumer_thread' = "get"
    /\ caller' = "running"
    /\ UNCHANGED <<containers, counters, channel, producer_thread, p_item, c_item, others>>

start ==
    \/ start_create
    \/ start_producer
    \/ start_consumer

\* ---- wait_completion(), lines 114-119 ----
\* line 118: self.producer_thread.join(), blocks until that thread has ended
join_producer ==
    /\ caller = "running"
    /\ producer_thread = "terminated"
    /\ caller' = "join_consumer"
    /\ UNCHANGED <<containers, counters, channel, threads, others>>

\* join_consumer joining the producer thread a second time instead
join_consumer_wrong_thread ==
    /\ caller = "join_consumer"
    /\ producer_thread = "terminated"
    /\ caller' = "completed"
    /\ UNCHANGED <<containers, counters, channel, threads, others>>

\* line 119: self.consumer_thread.join(); wait_completion() returns
join_consumer ==
    /\ caller = "join_consumer"
    /\ consumer_thread = "terminated"
    /\ caller' = "completed"
    /\ UNCHANGED <<containers, counters, channel, threads, others>>

wait_completion ==
    \/ join_producer
    \/ join_consumer

\* ---- get_stats(), lines 121-130 ----
\* the positions where the caller is between two calls on the object
BetweenCalls == {"idle", "running", "completed"}

\* line 126: get_stats() is entered and "items_produced": self.items_produced
\* is evaluated, a plain attribute read without counter_lock
stats_items_produced ==
    /\ caller \in BetweenCalls
    /\ stats_calls < MaxStatsCalls
    /\ stats_calls' = stats_calls + 1
    /\ return_to' = caller
    /\ stats' = <<items_produced>>
    /\ caller' = "stats_items_consumed"
    /\ UNCHANGED <<containers, counters, channel, threads, orphans, sales>>

\* line 127: "items_consumed": self.items_consumed
stats_items_consumed ==
    /\ caller = "stats_items_consumed"
    /\ stats' = Append(stats, items_consumed)
    /\ caller' = "stats_source_size"
    /\ UNCHANGED <<containers, counters, channel, threads, return_to, stats_calls, orphans, sales>>

\* line 128: "source_size": len(self.source_container)
stats_source_size ==
    /\ caller = "stats_source_size"
    /\ stats' = Append(stats, Len(source_container))
    /\ caller' = "stats_destination_size"
    /\ UNCHANGED <<containers, counters, channel, threads, return_to, stats_calls, orphans, sales>>

\* line 129: "destination_size": len(self.destination_container); the dict
\* is returned to the caller
stats_destination_size ==
    /\ caller = "stats_destination_size"
    /\ stats' = Append(stats, Len(destination_container))
    /\ caller' = return_to
    /\ UNCHANGED <<containers, counters, channel, threads, return_to, stats_calls, orphans, sales>>

get_stats ==
    \/ stats_items_produced
    \/ stats_items_consumed
    \/ stats_source_size
    \/ stats_destination_size

\* ---- the program ----
Next ==
    \/ start
    \/ wait_completion
    \/ producer
    \/ consumer

Spec == Init /\ [][Next]_vars

\* The interpreter schedules every thread that can run: a thread that is not
\* blocked in put(), get(), a lock or join() eventually takes its step.
FairSpec == Spec /\ WF_vars(producer) /\ WF_vars(consumer) /\ WF_vars(start) /\ WF_vars(wait_completion)

\* the program with a caller that also calls get_stats() between its calls
StatsNext ==
    \/ start
    \/ wait_completion
    \/ producer
    \/ consumer
    \/ get_stats

StatsSpec == Init /\ [][StatsNext]_vars

\* ---- a caller that calls start() again, lines 99-112 ----
\* line 55 in a thread that finds the list emptied by another producer thread
\* between its loop test and its pop: IndexError ends the thread, line 68 is
\* not reached
producer_pop_raises ==
    /\ producer_thread = "pop"
    /\ source_container = <<>>
    /\ producer_thread' = "terminated"
    /\ UNCHANGED <<containers, counters, channel, consumer_thread, p_item, c_item, caller, others>>

\* lines 103-108 on an object that was started before: start() tests nothing,
\* the attributes are overwritten with two new Thread objects and the threads
\* of the earlier start() run on without a handle
restart_create ==
    /\ caller \in {"running", "completed"}
    /\ orphan_producer = None
    /\ orphan_consumer = None
    /\ orphan_producer' = producer_thread
    /\ orphan_consumer' = consumer_thread
    /\ orphan_p_item' = p_item
    /\ orphan_c_item' = c_item
    /\ counter_lock' = CASE counter_lock = "producer" -> "orphan_producer"
                         [] counter_lock = "consumer" -> "orphan_consumer"
                         [] OTHER -> counter_lock
    /\ producer_thread' = "created"
    /\ consumer_thread' = "created"
    /\ p_item' = Unbound
    /\ c_item' = Unbound
    /\ caller' = "start_producer"
    /\ UNCHANGED <<containers, items_produced, items_consumed, channel, observer, sales>>

\* ---- producer() in the thread of the earlier start() ----
\* earlier thread, line 53: while self.source_container
orphan_producer_while ==
    /\ orphan_producer = "while"
    /\ orphan_producer' = IF source_container # <<>> THEN "pop" ELSE "put_sentinel"
    /\ UNCHANGED <<containers, counters, channel, threads, caller, observer, orphan_consumer, orphan_c_item, orphan_p_item, sales>>

\* earlier thread, line 55: item = self.source_container.pop(0), on a non-empty list
orphan_producer_pop ==
    /\ orphan_producer = "pop"
    /\ source_container # <<>>
    /\ orphan_p_item' = Head(source_container)
    /\ source_container' = Tail(source_container)
    /\ orphan_producer' = "put"
    /\ UNCHANGED <<source_data, destination_container, counters, channel, threads, caller, observer, orphan_consumer, orphan_c_item, sales>>

\* earlier thread, line 58: self.shared_queue.put(item), blocks while the queue is full
orphan_producer_put ==
    /\ orphan_producer = "put"
    /\ CanPut
    /\ shared_queue' = Append(shared_queue, orphan_p_item)
    /\ unfinished_tasks' = unfinished_tasks + 1
    /\ orphan_producer' = "acquire"
    /\ UNCHANGED <<containers, counters, maxsize, threads, caller, observer, orphan_consumer, orphan_c_item, orphan_p_item, sales>>

\* earlier thread, line 62: with self.counter_lock (enter)
orphan_producer_acquire ==
    /\ orphan_producer = "acquire"
    /\ counter_lock = "free"
    /\ counter_lock' = "orphan_producer"
    /\ orphan_producer' = "increment"
    /\ UNCHANGED <<containers, items_produced, items_consumed, channel, threads, caller, observer, orphan_consumer, orphan_c_item, orphan_p_item, sales>>

\* earlier thread, line 63: self.items_produced += 1
orphan_producer_increment ==
    /\ orphan_producer = "increment"
    /\ items_produced' = items_produced + 1
    /\ orphan_producer' = "release"
    /\ UNCHANGED <<containers, items_consumed, counter_lock, channel, threads, caller, observer, orphan_consumer, orphan_c_item, orphan_p_item, sales>>

\* earlier thread, line 62: with self.counter_lock (exit)
orphan_producer_release ==
    /\ orphan_producer = "release"
    /\ counter_lock' = "free"
    /\ orphan_producer' = "sleep"
    /\ UNCHANGED <<containers, items_produced, items_consumed, channel, threads, caller, observer, orphan_consumer, orphan_c_item, orphan_p_item, sales>>

\* earlier thread, line 65: time.sleep(delay), then back to the loop test
orphan_producer_sleep ==
    /\ orphan_producer = "sleep"
    /\ orphan_producer' = "while"
    /\ UNCHANGED <<containers, counters, channel, threads, caller, observer, orphan_consumer, orphan_c_item, orphan_p_item, sales>>

\* earlier thread, line 68: self.shared_queue.put(None), blocks while the queue is full;
\* the function returns after it and the thread ends
orphan_producer_put_sentinel ==
    /\ orphan_producer = "put_sentinel"
    /\ CanPut
    /\ shared_queue' = Append(shared_queue, None)
    /\ unfinished_tasks' = unfinished_tasks + 1
    /\ orphan_producer' = "terminated"
    /\ UNCHANGED <<containers, counters, maxsize, threads, caller, observer, orphan_consumer, orphan_c_item, orphan_p_item, sales>>

\* earlier thread, line 55 on a list emptied by the other producer thread
orphan_producer_pop_raises ==
    /\ orphan_producer = "pop"
    /\ source_container = <<>>
    /\ orphan_producer' = "terminated"
    /\ UNCHANGED <<containers, counters, channel, threads, caller, observer, orphan_consumer, orphan_c_item, orphan_p_item, sales>>

orphan_producer_steps ==
    \/ orphan_producer_while
    \/ orphan_producer_pop
    \/ orphan_producer_put
    \/ orphan_producer_acquire
    \/ orphan_producer_increment
    \/ orphan_producer_release
    \/ orphan_producer_sleep
    \/ orphan_producer_put_sentinel
    \/ orphan_producer_pop_raises

\* ---- consumer() in the thread of the earlier start() ----
\* ---- consumer(), lines 71-97 ----
\* earlier thread, line 79: item = self.shared_queue.get(), blocks while the queue is empty
orphan_consumer_get ==
    /\ orphan_consumer = "get"
    /\ CanGet
    /\ orphan_c_item' = Head(shared_queue)
    /\ shared_queue' = Tail(shared_queue)
    /\ orphan_consumer' = "is_none"
    /\ UNCHANGED <<containers, counters, maxsize, unfinished_tasks, threads, caller, observer, orphan_producer, orphan_p_item, sales>>

\* earlier thread, line 82: if item is None
orphan_consumer_is_none ==
    /\ orphan_consumer = "is_none"
    /\ orphan_consumer' = IF orphan_c_item = None THEN "last_task_done" ELSE "append"
    /\ UNCHANGED <<containers, counters, channel, threads, caller, observer, orphan_producer, orphan_p_item, orphan_c_item, sales>>

\* earlier thread, lines 84-85: self.shared_queue.task_done(); break; the thread ends
orphan_consumer_last_task_done ==
    /\ orphan_consumer = "last_task_done"
    /\ unfinished_tasks' = unfinished_tasks - 1
    /\ orphan_consumer' = "terminated"
    /\ UNCHANGED <<containers, counters, maxsize, shared_queue, threads, caller, observer, orphan_producer, orphan_p_item, orphan_c_item, sales>>

\* earlier thread, line 89: self.destination_container.append(item)
orphan_consumer_append ==
    /\ orphan_consumer = "append"
    /\ destination_container' = Append(destination_container, orphan_c_item)
    /\ orphan_consumer' = "acquire"
    /\ UNCHANGED <<source_data, source_container, counters, channel, threads, caller, observer, orphan_producer, orphan_p_item, orphan_c_item, sales>>

\* earlier thread, line 92: with self.counter_lock (enter)
orphan_consumer_acquire ==
    /\ orphan_consumer = "acquire"
    /\ counter_lock = "free"
    /\ counter_lock' = "orphan_consumer"
    /\ orphan_consumer' = "increment"
    /\ UNCHANGED <<containers, items_produced, items_consumed, channel, threads, caller, observer, orphan_producer, orphan_p_item, orphan_c_item, sales>>

\* earlier thread, line 93: self.items_consumed += 1
orphan_consumer_increment ==
    /\ orphan_consumer = "increment"
    /\ items_consumed' = items_consumed + 1
    /\ orphan_consumer' = "release"
    /\ UNCHANGED <<containers, items_produced, counter_lock, channel, threads, caller, observer, orphan_producer, orphan_p_item, orphan_c_item, sales>>

\* earlier thread, line 92: with self.counter_lock (exit)
orphan_consumer_release ==
    /\ orphan_consumer = "release"
    /\ counter_lock' = "free"
    /\ orphan_consumer' = "task_done"
    /\ UNCHANGED <<containers, items_produced, items_consumed, channel, threads, caller, observer, orphan_producer, orphan_p_item, orphan_c_item, sales>>

\* earlier thread, line 96: self.shared_queue.task_done()
orphan_consumer_task_done ==
    /\ orphan_consumer = "task_done"
    /\ unfinished_tasks' = unfinished_tasks - 1
    /\ orphan_consumer' = "sleep"
    /\ UNCHANGED <<containers, counters, maxsize, shared_queue, threads, caller, observer, orphan_producer, orphan_p_item, orphan_c_item, sales>>

\* earlier thread, line 97: time.sleep(delay), then back to the head of the loop
orphan_consumer_sleep ==
    /\ orphan_consumer = "sleep"
    /\ orphan_consumer' = "get"
    /\ UNCHANGED <<containers, counters, channel, threads, caller, observer, orphan_producer, orphan_p_item, orphan_c_item, sales>>

orphan_consumer_steps ==
    \/ orphan_consumer_get
    \/ orphan_consumer_is_none
    \/ orphan_consumer_last_task_done
    \/ orphan_consumer_append
    \/ orphan_consumer_acquire
    \/ orphan_consumer_increment
    \/ orphan_consumer_release
    \/ orphan_consumer_task_done
    \/ orphan_consumer_sleep

\* the program with a caller that calls start() a second time, while the
\* first threads run or after wait_completion() has returned
RestartNext ==
    \/ start
    \/ restart_create
    \/ wait_completion
    \/ producer
    \/ producer_pop_raises
    \/ consumer
    \/ orphan_producer_steps
    \/ orphan_consumer_steps

RestartSpec == Init /\ [][RestartNext]_vars

\* ---- assignment2/sales_analysis.py: class SalesAnalysis ----
\* A field of a CSV row is a string, modelled as its sequence of characters.
\* the code points of the characters that occur, for Python's string order
CodePoint ==
    ("-" :> 45) @@ ("0" :> 48) @@ ("1" :> 49) @@ ("2" :> 50) @@ ("3" :> 51) @@
    ("4" :> 52) @@ ("5" :> 53) @@ ("6" :> 54) @@ ("7" :> 55) @@ ("8" :> 56) @@
    ("9" :> 57) @@ ("A" :> 65) @@ ("B" :> 66) @@ ("N" :> 78) @@ ("S" :> 83) @@
    ("p" :> 112) @@ ("q" :> 113) @@ ("x" :> 120)

\* the value of a decimal digit
DigitValue ==
    ("0" :> 0) @@ ("1" :> 1) @@ ("2" :> 2) @@ ("3" :> 3) @@ ("4" :> 4) @@
    ("5" :> 5) @@ ("6" :> 6) @@ ("7" :> 7) @@ ("8" :> 8) @@ ("9" :> 9)

\* the value None that csv.DictReader stores for a field a short row lacks
Missing == <<None>>

\* str < str of Python: lexicographic by code point, a proper prefix is less
RECURSIVE StrLess(_, _)
StrLess(a, b) ==
    IF b = <<>> THEN FALSE
    ELSE IF a = <<>> THEN TRUE
    ELSE IF CodePoint[Head(a)] # CodePoint[Head(b)] THEN CodePoint[Head(a)] < CodePoint[Head(b)]
    ELSE StrLess(Tail(a), Tail(b))

\* ---- float ----
RECURSIVE Pow2(_)
Pow2(n) == IF n = 0 THEN 1 ELSE 2 * Pow2(n - 1)

\* the spacing of the floats around x >= 0: 1 below 2^MantissaBits, doubling
\* with every further binade
RECURSIVE UlpOf(_, _)
UlpOf(x, u) == IF x < Pow2(MantissaBits) * u THEN u ELSE UlpOf(x, 2 * u)

\* the float nearest to the integer x >= 0, ties to the even significand
FloatRound(x) ==
    LET u == UlpOf(x, 1)
        q == x \div u
        r == x % u
    IN  IF 2 * r < u THEN q * u
        ELSE IF 2 * r > u THEN (q + 1) * u
        ELSE IF q % 2 = 0 THEN q * u
        ELSE (q + 1) * u

\* float + float
FloatAdd(a, b) == FloatRound(a + b)

\* the text is a decimal numeral float() accepts: digits only, at least one
IsNumeral(value) ==
    /\ value # Missing
    /\ value # <<>>
    /\ \A i \in 1..Len(value) : value[i] \in DOMAIN DigitValue

\* the integer a string of digits denotes
RECURSIVE DecimalValue(_)
DecimalValue(digits) ==
    IF digits = <<>> THEN 0
    ELSE 10 * DecimalValue(SubSeq(digits, 1, Len(digits) - 1)) + DigitValue[digits[Len(digits)]]

\* line 51: how float(value) ends: with a float, or raising TypeError for
\* None, ValueError for a string that is no numeral
FloatOutcome(value) ==
    IF value = Missing THEN "TypeError"
    ELSE IF IsNumeral(value) THEN "float"
    ELSE "ValueError"

\* Caught with the clause written as except ValueError: float(None) gets out
Caught_value_error_only == {"ValueError"}

\* line 52: except (ValueError, TypeError)
Caught == {"ValueError", "TypeError"}

\* _to_numeric(value) lets an exception out
to_numeric_raises(value) == FloatOutcome(value) \notin ({"float"} \cup Caught)

\* lines 45-53: _to_numeric(value), when it returns
to_numeric(value) ==
    IF FloatOutcome(value) = "float" THEN FloatRound(DecimalValue(value)) ELSE 0

\* ---- what a method call gives back ----
Returned(v) == [raised |-> FALSE, value |-> v]
Raised(exception) == [raised |-> TRUE, value |-> exception]

\* some row makes _to_numeric raise on its column
AnyRaises(rows, column) == \E i \in 1..Len(rows) : to_numeric_raises(rows[i][column])

\* reduce(lambda acc, record: acc + self._to_numeric(record[column]), rows, 0.0)
RECURSIVE SumColumn(_, _)
SumColumn(rows, column) ==
    IF rows = <<>> THEN 0
    ELSE FloatAdd(SumColumn(SubSeq(rows, 1, Len(rows) - 1), column),
                  to_numeric(rows[Len(rows)][column]))

\* SortedBy with the sort left out: groupby() then sees the rows in file order
SortedBy_unsorted(rows, field) == rows

\* sorted(rows, key=itemgetter(field)): stable, ascending in the field
RECURSIVE SortedBy(_, _)
SortedBy(rows, field) ==
    IF rows = <<>> THEN <<>>
    ELSE LET front == SortedBy(SubSeq(rows, 1, Len(rows) - 1), field)
             last == rows[Len(rows)]
             k == Cardinality({i \in 1..Len(front) : ~StrLess(last[field], front[i][field])})
         IN  SubSeq(front, 1, k) \o <<last>> \o SubSeq(front, k + 1, Len(front))

\* itertools.groupby(rows, key=itemgetter(field)): one group for every run of
\* consecutive rows with the same key, in the order of the runs
RECURSIVE GroupBy(_, _)
GroupBy(rows, field) ==
    IF rows = <<>> THEN <<>>
    ELSE LET groups == GroupBy(SubSeq(rows, 1, Len(rows) - 1), field)
             last == rows[Len(rows)]
             n == Len(groups)
         IN  IF n > 0 /\ groups[n].key = last[field]
             THEN [groups EXCEPT ![n].records = Append(@, last)]
             ELSE Append(groups, [key |-> last[field], records |-> <<last>>])

\* a dict is the sequence of its (key, value) items in insertion order;
\* d[key] = value keeps the place of a key that is already there
DictPut(d, key, value) ==
    IF \E i \in 1..Len(d) : d[i][1] = key
    THEN [i \in 1..Len(d) |-> IF d[i][1] = key THEN <<key, value>> ELSE d[i]]
    ELSE Append(d, <<key, value>>)

\* {key: reduce(..., list(records), 0.0) for key, records in grouped}
RECURSIVE DictOfSums(_)
DictOfSums(groups) ==
    IF groups = <<>> THEN <<>>
    ELSE DictPut(DictOfSums(SubSeq(groups, 1, Len(groups) - 1)),
                 groups[Len(groups)].key,
                 SumColumn(groups[Len(groups)].records, "total_sales"))

\* sum(d.values()), as the tests compute it
RECURSIVE SumValues(_)
SumValues(d) ==
    IF d = <<>> THEN 0
    ELSE FloatAdd(SumValues(SubSeq(d, 1, Len(d) - 1)), d[Len(d)][2])

\* the keys of a dict
Keys(d) == {d[i][1] : i \in 1..Len(d)}

\* lines 55-65: total_revenue()
total_revenue(rows) ==
    IF AnyRaises(rows, "total_sales") THEN Raised("TypeError")
    ELSE Returned(SumColumn(rows, "total_sales"))

\* lines 67-83: revenue_by_category()
revenue_by_category(rows) ==
    IF AnyRaises(rows, "total_sales") THEN Raised("TypeError")
    ELSE Returned(DictOfSums(GroupBy(SortedBy(rows, "category"), "category")))

\* lines 85-100: revenue_by_region()
revenue_by_region(rows) ==
    IF AnyRaises(rows, "total_sales") THEN Raised("TypeError")
    ELSE Returned(DictOfSums(GroupBy(SortedBy(rows, "region"), "region")))

\* [(product, reduce(..., list(records), 0.0)) for product, records in grouped]
RECURSIVE ListOfSums(_)
ListOfSums(groups) ==
    IF groups = <<>> THEN <<>>
    ELSE Append(ListOfSums(SubSeq(groups, 1, Len(groups) - 1)),
                <<groups[Len(groups)].key, SumColumn(groups[Len(groups)].records, "total_sales")>>)

\* sorted(pairs, key=lambda x: x[1], reverse=True): descending in the second
\* component, pairs with equal keys stay in their order
RECURSIVE SortedByRevenueDescending(_)
SortedByRevenueDescending(pairs) ==
    IF pairs = <<>> THEN <<>>
    ELSE LET front == SortedByRevenueDescending(SubSeq(pairs, 1, Len(pairs) - 1))
             last == pairs[Len(pairs)]
             k == Cardinality({i \in 1..Len(front) : front[i][2] >= last[2]})
         IN  SubSeq(front, 1, k) \o <<last>> \o SubSeq(front, k + 1, Len(front))

\* list[:n]: the first n elements, all but the last -n when n is negative
SliceTo(list, n) ==
    IF n >= 0
    THEN SubSeq(list, 1, IF n < Len(list) THEN n ELSE Len(list))
    ELSE SubSeq(list, 1, IF Len(list) + n > 0 THEN Len(list) + n ELSE 0)

\* top_products_by_revenue without the sorted() of line 127: the pairs stay in
\* the order of the product names
top_products_by_revenue_in_product_order(rows, n) ==
    IF AnyRaises(rows, "total_sales") THEN Raised("TypeError")
    ELSE Returned(SliceTo(ListOfSums(GroupBy(SortedBy(rows, "product"), "product")), n))

\* lines 102-127: top_products_by_revenue(n)
top_products_by_revenue(rows, n) ==
    IF AnyRaises(rows, "total_sales") THEN Raised("TypeError")
    ELSE Returned(SliceTo(SortedByRevenueDescending(
                      ListOfSums(GroupBy(SortedBy(rows, "product"), "product"))), n))

\* float / int: the quotient, kept as numerator and denominator
Quotient(a, b) == [num |-> a, den |-> b]

\* average_transaction_value without lines 135-136: no rows divide by zero
average_transaction_value_unguarded(rows) ==
    IF AnyRaises(rows, "total_sales") THEN Raised("TypeError")
    ELSE IF Len(rows) = 0 THEN Raised("ZeroDivisionError")
    ELSE Returned(Quotient(SumColumn(rows, "total_sales"), Len(rows)))

\* lines 129-144: average_transaction_value()
average_transaction_value(rows) ==
    IF rows = <<>> THEN Returned(Quotient(0, 1))
    ELSE IF AnyRaises(rows, "total_sales") THEN Raised("TypeError")
    ELSE Returned(Quotient(SumColumn(rows, "total_sales"), Len(rows)))

\* text[:7]
SliceTo7(text) == SubSeq(text, 1, IF Len(text) < 7 THEN Len(text) ELSE 7)

\* lines 156-162: map(lambda record: {**record, 'year_month': record['date'][:7]}, self.data)
WithYearMonth(rows) ==
    [i \in 1..Len(rows) |-> ("year_month" :> SliceTo7(rows[i].date)) @@ rows[i]]

\* lines 146-174: monthly_revenue_trend()
monthly_revenue_trend(rows) ==
    IF AnyRaises(rows, "total_sales") THEN Raised("TypeError")
    ELSE Returned(DictOfSums(GroupBy(SortedBy(WithYearMonth(rows), "year_month"), "year_month")))

\* lines 182-185: map(lambda record: self._to_numeric(record['quantity']), self.data)
Quantities(rows) == [i \in 1..Len(rows) |-> to_numeric(rows[i].quantity)]

\* line 191: reduce(lambda a, b: a if a < b else b, quantities)
RECURSIVE ReduceMin(_)
ReduceMin(numbers) ==
    IF Len(numbers) = 1 THEN numbers[1]
    ELSE LET a == ReduceMin(SubSeq(numbers, 1, Len(numbers) - 1))
             b == numbers[Len(numbers)]
         IN  IF a < b THEN a ELSE b

\* line 192: reduce(lambda a, b: a if a > b else b, quantities)
RECURSIVE ReduceMax(_)
ReduceMax(numbers) ==
    IF Len(numbers) = 1 THEN numbers[1]
    ELSE LET a == ReduceMax(SubSeq(numbers, 1, Len(numbers) - 1))
             b == numbers[Len(numbers)]
         IN  IF a > b THEN a ELSE b

\* line 193: reduce(lambda acc, q: acc + q, quantities, 0.0)
RECURSIVE ReduceSum(_)
ReduceSum(numbers) ==
    IF numbers = <<>> THEN 0
    ELSE FloatAdd(ReduceSum(SubSeq(numbers, 1, Len(numbers) - 1)), numbers[Len(numbers)])

\* lines 176-194: quantity_statistics()
quantity_statistics(rows) ==
    IF AnyRaises(rows, "quantity") THEN Raised("TypeError")
    ELSE IF Quantities(rows) = <<>>
         THEN Returned([min |-> 0, max |-> 0, average |-> Quotient(0, 1)])
         ELSE Returned([min |-> ReduceMin(Quantities(rows)),
                        max |-> ReduceMax(Quantities(rows)),
                        average |-> Quotient(ReduceSum(Quantities(rows)), Len(rows))])

\* IsHighValue with > for >=: a row at the threshold is dropped
IsHighValue_strict(record, threshold) == to_numeric(record.total_sales) > threshold

\* line 201: the condition of the filter
IsHighValue(record, threshold) == to_numeric(record.total_sales) >= threshold

\* lines 196-203: filter_high_value_transactions(threshold)
filter_high_value_transactions(rows, threshold) ==
    IF AnyRaises(rows, "total_sales") THEN Raised("TypeError")
    ELSE Returned(SelectSeq(rows, LAMBDA record : IsHighValue(record, threshold)))

\* set(map(lambda record: record['product'], list(records))): list() of it
\* holds these elements once each, in the order the set iterates
ProductsOf(records) == {records[i].product : i \in 1..Len(records)}

\* {region: list(set(...)) for region, records in grouped}
RECURSIVE DictOfProducts(_)
DictOfProducts(groups) ==
    IF groups = <<>> THEN <<>>
    ELSE DictPut(DictOfProducts(SubSeq(groups, 1, Len(groups) - 1)),
                 groups[Len(groups)].key,
                 ProductsOf(groups[Len(groups)].records))

\* lines 205-223: products_by_region()
products_by_region(rows) ==
    Returned(DictOfProducts(GroupBy(SortedBy(rows, "region"), "region")))

\* ---- the CSV files that are enumerated ----
\* the texts of a numeric column: two numerals, a text that is no number, and
\* a field the row lacks
NumericTexts == {<<"1">>, <<"8">>, <<"1", "x">>, Missing}

Categories == {<<"A">>, <<"B">>}
Regions == {<<"N">>, <<"S">>}

\* the other columns of an enumerated row, set from its category, region and
\* total_sales so that no two columns split the rows the same way
ProductOf(category, region) == IF (category = <<"A">>) = (region = <<"N">>) THEN <<"p">> ELSE <<"q">>

DateOf(category, text) ==
    IF (category = <<"A">>) = IsNumeral(text)
    THEN <<"2", "0", "2", "4", "-", "0", "1", "-", "1", "5">>
    ELSE <<"2", "0", "2", "4", "-", "0", "2", "-", "1", "6">>

QuantityOf(region, text) ==
    IF text = <<"1">> THEN (IF region = <<"N">> THEN <<"2">> ELSE <<"1", "x">>)
    ELSE IF text = <<"8">> THEN (IF region = <<"N">> THEN Missing ELSE <<"5">>)
    ELSE IF region = <<"N">> THEN <<"3">> ELSE <<"1">>

\* the (category, region) pairs of the enumerated rows: three of the four keep
\* the groupings by category, by region and by product different
Places == (Categories \X Regions) \ {<<<<"B">>, <<"S">>>>}

\* a row as csv.DictReader yields it (lines 41-43): column name to string
Rows ==
    {[category |-> place[1], region |-> place[2],
      product |-> ProductOf(place[1], place[2]), date |-> DateOf(place[1], t),
      quantity |-> QuantityOf(place[2], t), total_sales |-> t] :
        place \in Places, t \in NumericTexts}

\* self.data after _load_data()
Datasets == UNION {[1..k -> Rows] : k \in 0..MaxRows}

\* lines 25-34: SalesAnalysis(csv_file_path); no pipeline is in use
SalesInit ==
    /\ data \in Datasets
    /\ query = <<"none">>
    /\ result = <<>>
    /\ source_data = <<>>
    /\ maxsize = 1
    /\ source_container = <<>>
    /\ destination_container = <<>>
    /\ shared_queue = <<>>
    /\ unfinished_tasks = 0
    /\ items_produced = 0
    /\ items_consumed = 0
    /\ counter_lock = "free"
    /\ producer_thread = None
    /\ consumer_thread = None
    /\ p_item = Unbound
    /\ c_item = Unbound
    /\ caller = "idle"
    /\ stats = <<>>
    /\ return_to = "idle"
    /\ stats_calls = 0
    /\ orphan_producer = None
    /\ orphan_consumer = None
    /\ orphan_p_item = Unbound
    /\ orphan_c_item = Unbound

\* everything of the producer/consumer model
pipeline == <<containers, counters, channel, threads, caller, observer, orphans>>

\* a call of total_revenue()
call_total_revenue ==
    /\ query' = <<"total_revenue">>
    /\ result' = total_revenue(data)
    /\ UNCHANGED <<data, pipeline>>

\* a call of revenue_by_category()
call_revenue_by_category ==
    /\ query' = <<"revenue_by_category">>
    /\ result' = revenue_by_category(data)
    /\ UNCHANGED <<data, pipeline>>

\* a call of revenue_by_region()
call_revenue_by_region ==
    /\ query' = <<"revenue_by_region">>
    /\ result' = revenue_by_region(data)
    /\ UNCHANGED <<data, pipeline>>

\* the thresholds filter_high_value_transactions() is called with
Thresholds == {0, 1, 8}

\* the counts top_products_by_revenue() is called with: n is any int
TopCounts == (-1)..MaxTop

\* a call of top_products_by_revenue(n)
call_top_products_by_revenue ==
    \E n \in TopCounts :
        /\ query' = <<"top_products_by_revenue", n>>
        /\ result' = top_products_by_revenue(data, n)
        /\ UNCHANGED <<data, pipeline>>

\* a call of average_transaction_value()
call_average_transaction_value ==
    /\ query' = <<"average_transaction_value">>
    /\ result' = average_transaction_value(data)
    /\ UNCHANGED <<data, pipeline>>

\* RowsAfterMonthlyTrend with line 157 written as record['year_month'] = ...:
\* the key is set on the rows of self.data themselves
RowsAfterMonthlyTrend_in_place(rows) == WithYearMonth(rows)

\* self.data after monthly_revenue_trend(): line 157 builds a new dict
\* {**record, 'year_month': ...} for each row, the rows stay as they are
RowsAfterMonthlyTrend(rows) == rows

\* a call of monthly_revenue_trend()
call_monthly_revenue_trend ==
    /\ query' = <<"monthly_revenue_trend">>
    /\ result' = monthly_revenue_trend(data)
    /\ data' = RowsAfterMonthlyTrend(data)
    /\ UNCHANGED pipeline

\* a call of quantity_statistics()
call_quantity_statistics ==
    /\ query' = <<"quantity_statistics">>
    /\ result' = quantity_statistics(data)
    /\ UNCHANGED <<data, pipeline>>

\* a call of filter_high_value_transactions(threshold)
call_filter_high_value_transactions ==
    \E threshold \in Thresholds :
        /\ query' = <<"filter_high_value_transactions", threshold>>
        /\ result' = filter_high_value_transactions(data, threshold)
        /\ UNCHANGED <<data, pipeline>>

\* a call of products_by_region()
call_products_by_region ==
    /\ query' = <<"products_by_region">>
    /\ result' = products_by_region(data)
    /\ UNCHANGED <<data, pipeline>>

\* the methods of a loaded SalesAnalysis, called in any order
SalesNext ==
    \/ call_total_revenue
    \/ call_revenue_by_category
    \/ call_revenue_by_region
    \/ call_top_products_by_revenue
    \/ call_average_transaction_value
    \/ call_monthly_revenue_trend
    \/ call_quantity_statistics
    \/ call_filter_high_value_transactions
    \/ call_products_by_region

SalesSpec == SalesInit /\ [][SalesNext]_vars

\* ---- states of a run ----
\* both threads have returned from their functions
BothTerminated == producer_thread = "terminated" /\ consumer_thread = "terminated"

\* the consumer has left its loop through the break of line 85
ConsumerBroke == consumer_thread \in {"last_task_done", "terminated"}

\* the step that performs put(None) of line 68
SentinelPutStep == producer_thread = "put_sentinel" /\ producer_thread' = "terminated"

\* the step that performs get() of line 79
GetStep == consumer_thread = "get" /\ consumer_thread' = "is_none"

\* ---- C1 ----
\* C1: for every source list and every capacity >= 1, once both threads have
\* terminated destination_container equals the source list: same items, same
\* order, nothing lost, nothing duplicated.
C1_DestinationEqualsSource ==
    (maxsize >= 1 /\ BothTerminated) => destination_container = source_data

\* ---- C2 ----
\* C2: the consumer leaves its loop only on the marker the producer enqueues
\* after the source is exhausted, never on a value of the source: when it has
\* left the loop the producer has put its marker, nothing is left in the queue
\* and every source value, None included, is in destination_container.
C2_SentinelDistinctFromItems ==
    ConsumerBroke =>
        /\ producer_thread = "terminated"
        /\ shared_queue = <<>>
        /\ destination_container = source_data

\* ---- C3 ----
\* C3: a pipeline whose capacity is 0 does not exist: construction rejects it,
\* so it is never idle and never started.
C3_ZeroCapacityRejected ==
    maxsize = 0 => ~(caller \in {"idle", "start_producer", "start_consumer", "running", "join_consumer", "completed"})

\* ---- C4 ----
\* C4: in every reachable state the number of entries in the shared queue,
\* sentinel included, is between 0 and the capacity.
C4_OccupancyWithinCapacity ==
    Len(shared_queue) >= 0 /\ Len(shared_queue) <= maxsize

\* ---- C5 ----
\* C5: for every source and every capacity >= 1, under fair scheduling, a
\* started pipeline eventually has both threads terminated and
\* wait_completion() returns.
C5_EventuallyCompleted ==
    (maxsize >= 1 /\ caller = "running") ~> (BothTerminated /\ caller = "completed")

\* ---- C6 ----
\* C6: after completion of a run with capacity >= 1, items_produced and
\* items_consumed both equal the length of the source list.
C6_CountersEqualSourceLength ==
    (maxsize >= 1 /\ caller = "completed") =>
        /\ items_produced = Len(source_data)
        /\ items_consumed = Len(source_data)

\* ---- C7 ----
\* the sentinel is put only when the source is drained and every item of it
\* has been enqueued and counted; the put appends None at the tail
C7_PutAfterDrain ==
    SentinelPutStep =>
        /\ source_container = <<>>
        /\ items_produced = Len(source_data)
        /\ shared_queue' = Append(shared_queue, None)

\* after the sentinel put the producer puts nothing more: it stays terminated
\* and the queue only changes by losing its head
C7_NothingAfterSentinel ==
    producer_thread = "terminated" =>
        /\ producer_thread' = "terminated"
        /\ \/ shared_queue' = shared_queue
           \/ shared_queue # <<>> /\ shared_queue' = Tail(shared_queue)

\* the dequeue of the last entry after the sentinel put returns the sentinel
\* and leaves the queue empty
C7_SentinelDequeuedLast ==
    (producer_thread = "terminated" /\ GetStep /\ Len(shared_queue) = 1) =>
        /\ c_item' = None
        /\ shared_queue' = <<>>

\* once the producer has put the sentinel, the sentinel is the tail entry of
\* a non-empty queue: every real item still buffered is in front of it
C7_SentinelAtTail ==
    (producer_thread = "terminated" /\ shared_queue # <<>>) =>
        shared_queue[Len(shared_queue)] = None

C8_NoSentinelInDestination ==
    \A i \in 1..Len(destination_container) : destination_container[i] # None

\* a step taken while the consumer holds the dequeued sentinel appends nothing,
\* counts nothing and leads the consumer to its end only
C8_SentinelStepFrame ==
    (c_item = None /\ consumer_thread \in {"is_none", "last_task_done", "terminated"}) =>
        /\ destination_container' = destination_container
        /\ items_consumed' = items_consumed
        /\ consumer_thread' \in {consumer_thread, "last_task_done", "terminated"}

\* C8: when the consumer dequeues the sentinel it terminates without appending
\* to destination_container and without incrementing items_consumed; the
\* sentinel is never in destination_container.
C8_SentinelNotConsumed ==
    /\ []C8_NoSentinelInDestination
    /\ [][C8_SentinelStepFrame]_vars

\* the consumer has ended on the sentinel after it consumed real items
C8_Witness ==
    /\ consumer_thread = "terminated"
    /\ c_item = None
    /\ Len(destination_container) >= 2
    /\ items_consumed = Len(destination_container)

\* ---- C9 ----
\* with an empty source no counter leaves 0 and nothing is transferred
C9_NothingCounted ==
    source_data = <<>> =>
        /\ items_produced = 0
        /\ items_consumed = 0
        /\ destination_container = <<>>
        /\ source_container = <<>>

\* with an empty source the queue changes in two ways only: the producer's
\* sentinel put into the empty queue and the consumer's dequeue of it
C9_OnlySentinelMoves ==
    (source_data = <<>> /\ shared_queue' # shared_queue) =>
        \/ SentinelPutStep /\ shared_queue = <<>> /\ shared_queue' = <<None>>
        \/ GetStep /\ shared_queue = <<None>> /\ shared_queue' = <<>> /\ c_item' = None

\* C9: with an empty source the run terminates with items_produced = 0,
\* items_consumed = 0 and destination_container = []; the producer's only
\* queue operation is the sentinel put, the consumer's only dequeue is that
\* sentinel, and no counter ever leaves 0.
C9_EmptySource ==
    /\ []C9_NothingCounted
    /\ [][C9_OnlySentinelMoves]_vars
    /\ (source_data = <<>> /\ caller = "running") ~>
           (BothTerminated /\ caller = "completed" /\ shared_queue = <<>> /\ c_item = None)

\* a completed run on the empty list
C9_Witness ==
    /\ source_data = <<>>
    /\ caller = "completed"
    /\ BothTerminated
    /\ c_item = None
    /\ unfinished_tasks = 0

\* ---- C10 ----
\* C10: wait_completion() returns only when the producer thread and the
\* consumer thread have both terminated; while it is between its two joins the
\* producer has terminated.
C10_ReturnsAfterBothTerminated ==
    /\ caller = "completed" => BothTerminated
    /\ caller = "join_consumer" => producer_thread = "terminated"

\* wait_completion() has returned on a run that moved items
C10_Witness ==
    /\ caller = "completed"
    /\ Len(source_data) >= 1
    /\ destination_container = source_data

\* ---- C11 ----
\* a step of get_stats() changes nothing of the pipeline
C11_StatsFrame ==
    (stats' # stats) => UNCHANGED <<containers, counters, channel, threads>>

\* the dict of a get_stats() call made once Completed
C11_StatsExactWhenCompleted ==
    (caller = "completed" /\ return_to = "completed" /\ Len(stats) = 4) =>
        stats = <<Len(source_data), Len(source_data), 0, Len(source_data)>>

\* C11: get_stats() can be called in Idle, Running and Completed and changes no
\* pipeline state; called once Completed on a run over S it returns
\* items_produced = len(S), items_consumed = len(S), source_size = 0 and
\* destination_size = len(S).
C11_StatsSafeAndExact ==
    /\ []C11_StatsExactWhenCompleted
    /\ [][C11_StatsFrame]_vars

\* ---- C12 ----
\* a counter changes only in a step of the thread that holds counter_lock, and
\* the change is one increment
C12_MutationUnderLock ==
    /\ (items_produced' # items_produced) =>
           (counter_lock = "producer" /\ counter_lock' = "producer" /\ items_produced' = items_produced + 1)
    /\ (items_consumed' # items_consumed) =>
           (counter_lock = "consumer" /\ counter_lock' = "consumer" /\ items_consumed' = items_consumed + 1)

\* the lock has one holder at most: a thread is inside its with-block exactly
\* when it is the holder
C12_OneHolder ==
    /\ counter_lock \in {"free", "producer", "consumer"}
    /\ (counter_lock = "producer") <=> (producer_thread \in {"increment", "release"})
    /\ (counter_lock = "consumer") <=> (consumer_thread \in {"increment", "release"})

\* each counter read of get_stats() is one load of the counter's current value
C12_AtomicRead ==
    /\ (stats' # stats /\ Len(stats') = 1) => stats'[1] = items_produced
    /\ (stats' # stats /\ Len(stats') = 2) => stats'[2] = items_consumed

\* no increment is lost: outside the body of its loop each thread has counted
\* every item it has moved
C12_NoLostUpdate ==
    /\ producer_thread \in {"while", "pop", "put_sentinel", "terminated"} =>
           items_produced = Len(source_data) - Len(source_container)
    /\ consumer_thread \in {"get", "is_none", "last_task_done", "terminated"} =>
           items_consumed = Len(destination_container)

\* C12: items_produced and items_consumed are mutated only by the thread that
\* holds counter_lock, at most one thread holds it, every counter read of
\* get_stats() is one atomic load, and no counter update is lost.
C12_CountersUnderLock ==
    /\ [](C12_OneHolder /\ C12_NoLostUpdate)
    /\ [][C12_MutationUnderLock /\ C12_AtomicRead]_vars

\* the consumer holds the lock while the producer waits for it and the caller
\* is reading the counters
C12_Witness ==
    /\ counter_lock = "consumer"
    /\ producer_thread = "acquire"
    /\ caller = "stats_items_consumed"
    /\ items_produced >= 1

\* ---- C14 ----
\* the part of the caller's list that the producer has not taken yet
C14_Remaining ==
    SubSeq(source_data, Len(source_data) - Len(source_container) + 1, Len(source_data))

\* C14: the constructor copies source_data: no step of the producer or the
\* consumer changes the caller's list, which keeps all its elements while the
\* copy in source_container is drained from the front.
C14_CallerListUntouched ==
    /\ [](Len(source_container) <= Len(source_data) /\ source_container = C14_Remaining)
    /\ [][source_data' = source_data]_vars

\* the copy has been drained, the caller's list still has its elements
C14_Witness ==
    /\ BothTerminated
    /\ source_container = <<>>
    /\ Len(source_data) >= 2
    /\ destination_container = source_data

\* ---- C20 ----
\* the item the producer has popped and not yet enqueued
C20_ProducerInHand == IF producer_thread = "put" THEN <<p_item>> ELSE <<>>

\* the consumer holds the producer's sentinel: the entry dequeued last, after
\* the producer's final put
C20_HoldsSentinel ==
    c_item = None /\ producer_thread = "terminated" /\ shared_queue = <<>>

\* the item the consumer has dequeued and not yet appended: the dequeued entry
\* until line 82 has sent it to the break or line 89 has appended it
C20_ConsumerInHand ==
    IF consumer_thread = "append" \/ (consumer_thread = "is_none" /\ ~C20_HoldsSentinel)
    THEN <<c_item>>
    ELSE <<>>

\* the real items in the queue, head first: all entries, but for the sentinel
\* that is the tail entry once the producer has put it
C20_RealItemsInQueue ==
    IF producer_thread = "terminated" /\ shared_queue # <<>>
    THEN SubSeq(shared_queue, 1, Len(shared_queue) - 1)
    ELSE shared_queue

\* C20: in every reachable state of a run on S, destination_container, the
\* item in the consumer's hand, the real items of the queue, the item in the
\* producer's hand and the remaining source_container, concatenated in this
\* order, are S; destination_container is a prefix of S.
C20_ConservationAndOrder ==
    /\ destination_container \o C20_ConsumerInHand \o C20_RealItemsInQueue
           \o C20_ProducerInHand \o source_container = source_data
    /\ Len(destination_container) <= Len(source_data)
    /\ destination_container = SubSeq(source_data, 1, Len(destination_container))

\* ---- C13 ----
\* the lifecycle state of the pipeline, read off the caller's position: Idle
\* until start() is entered, Completed once wait_completion() has returned
C13_Lifecycle ==
    IF caller = "idle" \/ (caller \in {"stats_items_consumed", "stats_source_size", "stats_destination_size"} /\ return_to = "idle")
    THEN "Idle"
    ELSE IF caller = "completed" \/ (caller \in {"stats_items_consumed", "stats_source_size", "stats_destination_size"} /\ return_to = "completed")
         THEN "Completed"
         ELSE "Running"

\* a thread context exists: its thread has been started and has not ended
C13_Live(thread) == thread \notin {None, "created", "terminated"}

\* the lifecycle only moves forward, one state at a time
C13_ForwardOnly ==
    \/ C13_Lifecycle' = C13_Lifecycle
    \/ C13_Lifecycle = "Idle" /\ C13_Lifecycle' = "Running"
    \/ C13_Lifecycle = "Running" /\ C13_Lifecycle' = "Completed"

\* start() launches threads only from Idle: no thread of an earlier start()
\* exists next to the threads the object holds
C13_OneContextEach ==
    /\ orphan_producer = None
    /\ orphan_consumer = None
    /\ ~(C13_Live(orphan_producer) /\ C13_Live(producer_thread))
    /\ ~(C13_Live(orphan_consumer) /\ C13_Live(consumer_thread))

\* C13: a pipeline instance passes only through Idle, Running, Completed in
\* that order; start() is effective only from Idle, so that whatever calls the
\* caller makes there is never more than one producer context and one consumer
\* context on the instance.
C13_GuardedLifecycle ==
    /\ []C13_OneContextEach
    /\ [][C13_ForwardOnly]_vars

\* ---- C15 ----
\* the sum of the parsed total_sales values in exact arithmetic
RECURSIVE C15_ExactTotal(_)
C15_ExactTotal(rows) ==
    IF rows = <<>> THEN 0
    ELSE C15_ExactTotal(Tail(rows))
         + (IF IsNumeral(Head(rows).total_sales) THEN DecimalValue(Head(rows).total_sales) ELSE 0)

\* no float addition over these rows rounds: the values and all their partial
\* sums, in any order, are integers below the first gap between floats
C15_NoRounding(rows) == C15_ExactTotal(rows) <= Pow2(MantissaBits)

\* the grouped sums of the last call add up to the grand total
C15_SumsAgree ==
    /\ ~result.raised
    /\ ~total_revenue(data).raised
    /\ SumValues(result.value) = total_revenue(data).value

\* C15 as claimed: for every dataset the sum of the values of
\* revenue_by_category() equals total_revenue(), and so does the sum of the
\* values of revenue_by_region().
C15_GroupSumsEqualTotal ==
    query[1] \in {"revenue_by_category", "revenue_by_region"} => C15_SumsAgree

\* C15 amended: the same equality for every dataset whose total_sales values
\* add up without floating-point rounding.
C15_GroupSumsEqualTotalWhenExact ==
    (query[1] \in {"revenue_by_category", "revenue_by_region"} /\ C15_NoRounding(data))
        => C15_SumsAgree

\* three rows in two groups, the first group split by a row of the second,
\* one total_sales that is no number
C15_Witness ==
    /\ query[1] = "revenue_by_region"
    /\ Len(data) = 3
    /\ data[1].region = data[3].region
    /\ data[1].region # data[2].region
    /\ \E i \in 1..3 : ~IsNumeral(data[i].total_sales)
    /\ C15_NoRounding(data)
    /\ ~result.raised
    /\ Len(result.value) = 2
    /\ SumValues(result.value) > 0

\* ---- C16: numeric parsing never signals an error ----

\* the text with a field that does not parse replaced by the numeral 0
C16_ZeroText(text) == IF IsNumeral(text) THEN text ELSE <<"0">>

\* the dataset with every numeric field that does not parse written as 0
C16_Zeroed(rows) ==
    [i \in 1..Len(rows) |->
        [rows[i] EXCEPT !.total_sales = C16_ZeroText(@), !.quantity = C16_ZeroText(@)]]

\* the query of the current state, asked of another dataset
C16_SameQueryOn(rows) ==
    CASE query[1] = "total_revenue" -> total_revenue(rows)
      [] query[1] = "revenue_by_category" -> revenue_by_category(rows)
      [] query[1] = "revenue_by_region" -> revenue_by_region(rows)
      [] query[1] = "top_products_by_revenue" -> top_products_by_revenue(rows, query[2])
      [] query[1] = "average_transaction_value" -> average_transaction_value(rows)
      [] query[1] = "monthly_revenue_trend" -> monthly_revenue_trend(rows)
      [] query[1] = "quantity_statistics" -> quantity_statistics(rows)
      [] query[1] = "filter_high_value_transactions" ->
             filter_high_value_transactions(rows, query[2])
      [] query[1] = "products_by_region" -> products_by_region(rows)

\* the result with the rows it lists, if it lists rows, zeroed as well
C16_ResultZeroed ==
    IF query[1] = "filter_high_value_transactions" THEN C16_Zeroed(result.value)
    ELSE result.value

\* C16: every query returns, never raises, and its result is the one it gives
\* when each numeric field that is non-numeric or missing reads 0, so that such
\* a row contributes exactly zero and the other rows count as they are.
C16_UnparseableCountsAsZero ==
    query[1] # "none" =>
        /\ ~result.raised
        /\ ~C16_SameQueryOn(C16_Zeroed(data)).raised
        /\ C16_ResultZeroed = C16_SameQueryOn(C16_Zeroed(data)).value

\* a total over a missing field, a non-numeric field and the numeral 8
C16_Witness ==
    /\ query[1] = "total_revenue"
    /\ \E i \in 1..Len(data) : data[i].total_sales = Missing
    /\ \E i \in 1..Len(data) : data[i].total_sales = <<"1", "x">>
    /\ \E i \in 1..Len(data) : data[i].total_sales = <<"8">>
    /\ ~result.raised
    /\ result.value = 8

\* ---- C17: a dataset without rows ----

\* what each query gives on no rows
C17_EmptyResult ==
    CASE query[1] = "total_revenue" -> result.value = 0
      [] query[1] = "average_transaction_value" ->
             result.value.den # 0 /\ result.value.num = 0
      [] query[1] \in {"revenue_by_category", "revenue_by_region",
                       "monthly_revenue_trend", "products_by_region"} ->
             result.value = <<>> /\ Keys(result.value) = {}
      [] query[1] = "top_products_by_revenue" -> result.value = <<>>
      [] query[1] = "quantity_statistics" ->
             /\ result.value.min = 0
             /\ result.value.max = 0
             /\ result.value.average.den # 0
             /\ result.value.average.num = 0
      [] OTHER -> TRUE

\* C17: on a dataset with no rows no query raises (the average does not divide
\* by zero), the total and the average are 0, every group-by query gives an
\* empty mapping, top_products_by_revenue(n) gives an empty list for every n,
\* and quantity_statistics() gives min = max = average = 0.
C17_EmptyDatasetGivesZeros ==
    (data = <<>> /\ query[1] # "none") => (~result.raised /\ C17_EmptyResult)

\* the average asked of no rows
C17_Witness ==
    /\ data = <<>>
    /\ query[1] = "average_transaction_value"
    /\ ~result.raised
    /\ result.value.num = 0

\* ---- C18: the top products ----

\* the products of the dataset
C18_DistinctProducts == {data[i].product : i \in 1..Len(data)}

\* the total_sales of the rows of a product, added in the order of the dataset
C18_RevenueOf(product) ==
    SumColumn(SelectSeq(data, LAMBDA record : record.product = product), "total_sales")

C18_Min(a, b) == IF a < b THEN a ELSE b

\* the pairs listed are (product, revenue of the product), no product twice,
\* in non-increasing revenue, and no product left out has more than one listed
C18_Listing(top) ==
    /\ \A i \in 1..Len(top) : top[i][1] \in C18_DistinctProducts
    /\ \A i, j \in 1..Len(top) : i # j => top[i][1] # top[j][1]
    /\ \A i \in 1..Len(top) : top[i][2] = C18_RevenueOf(top[i][1])
    /\ \A i, j \in 1..Len(top) : i < j => top[i][2] >= top[j][2]
    /\ \A product \in C18_DistinctProducts \ {top[i][1] : i \in 1..Len(top)} :
           \A i \in 1..Len(top) : C18_RevenueOf(product) <= top[i][2]

\* C18 as stated: top_products_by_revenue(n) returns min(n, number of distinct
\* products) pairs (product, revenue), one per product at most, the revenue
\* being the sum of total_sales over the rows of the product, in non-increasing
\* revenue, and no product left out has a greater revenue than one returned.
C18_TopProducts ==
    query[1] = "top_products_by_revenue" =>
        /\ ~result.raised
        /\ Len(result.value) = C18_Min(query[2], Cardinality(C18_DistinctProducts))
        /\ C18_Listing(result.value)

\* the number of pairs [:n] keeps out of d: n counts from the end when negative
C18_Kept(n, d) ==
    IF n >= 0 THEN C18_Min(n, d) ELSE IF d + n > 0 THEN d + n ELSE 0

\* C18, amended: the same for n >= 0; for n < 0 the list is the same ordering
\* without its last -n pairs, max(d + n, 0) pairs of the d distinct products.
C18_TopProductsOfAnyCount ==
    query[1] = "top_products_by_revenue" =>
        /\ ~result.raised
        /\ Len(result.value) = C18_Kept(query[2], Cardinality(C18_DistinctProducts))
        /\ C18_Listing(result.value)

\* the top 1 of two products of different revenue, the first row being of the
\* product that is left out
C18_Witness ==
    /\ query = <<"top_products_by_revenue", 1>>
    /\ Cardinality(C18_DistinctProducts) = 2
    /\ ~result.raised
    /\ Len(result.value) = 1
    /\ result.value[1][1] # data[1].product
    /\ result.value[1][2] > C18_RevenueOf(data[1].product)

\* ---- C19: the threshold filter ----

\* what a total_sales text parses to: its decimal value (as a float), 0 when it
\* is not a numeral or is missing
C19_Parsed(text) == IF IsNumeral(text) THEN FloatRound(DecimalValue(text)) ELSE 0

\* the positions of the dataset at or above the threshold
C19_Selected(threshold) ==
    {i \in 1..Len(data) : C19_Parsed(data[i].total_sales) >= threshold}

\* C19: filter_high_value_transactions(t) returns exactly the rows whose parsed
\* total_sales is >= t, a row equal to t included, each once and in the order
\* of the dataset: the k-th row returned is the row at the k-th selected
\* position, and there are as many rows as selected positions.
C19_FilterIsExact ==
    query[1] = "filter_high_value_transactions" =>
        /\ ~result.raised
        /\ Len(result.value) = Cardinality(C19_Selected(query[2]))
        /\ \A k \in 1..Len(result.value) :
               \E i \in C19_Selected(query[2]) :
                   /\ Cardinality({j \in C19_Selected(query[2]) : j <= i}) = k
                   /\ result.value[k] = data[i]

\* a filter at 8 over a row of 8 (kept), a row of 1 before it (dropped) and an
\* unparseable row (dropped)
C19_Witness ==
    /\ query = <<"filter_high_value_transactions", 8>>
    /\ Len(data) = 3
    /\ data[1].total_sales = <<"1">>
    /\ data[2].total_sales = <<"8">>
    /\ data[3].total_sales \in {<<"1", "x">>, Missing}
    /\ ~result.raised
    /\ result.value = <<data[2]>>

\* ---- C21: single-writer frame ----

\* what a producer step does to the containers and to the consumer's counter
C21_ProducerFrame ==
    /\ destination_container' = destination_container
    /\ items_consumed' = items_consumed
    /\ \/ source_container' = source_container
       \/ source_container # <<>> /\ source_container' = Tail(source_container)

\* what a consumer step does to the containers and to the producer's counter
C21_ConsumerFrame ==
    /\ source_container' = source_container
    /\ items_produced' = items_produced
    /\ \/ destination_container' = destination_container
       \/ destination_container' = Append(destination_container, c_item)

\* the step of line 55 or of line 89 changes its container
C21_WriterStep ==
    \/ producer_thread = "pop" /\ source_container' # source_container
    \/ consumer_thread = "append" /\ destination_container' # destination_container

\* C21: every producer step leaves destination_container and items_consumed
\* unchanged and changes source_container only by removing its front element;
\* every consumer step leaves source_container and items_produced unchanged
\* and changes destination_container only by appending the dequeued item at
\* the end; the containers change in no other step than the pop of line 55
\* and the append of line 89.
C21_SingleWriterFrame ==
    [][/\ producer => C21_ProducerFrame
       /\ consumer => C21_ConsumerFrame
       /\ (source_container' # source_container
           \/ destination_container' # destination_container) => C21_WriterStep]_vars

\* the producer has removed two items and the consumer has appended one to a
\* destination that already held one
C21_Witness ==
    /\ Len(source_container) + 2 <= Len(source_data)
    /\ Len(destination_container) = 2
    /\ destination_container[1] # destination_container[2]
    /\ consumer_thread = "acquire"

\* ---- C22: the counters only count up, one at a time, to len(S) at most ----

\* a counter after a step: as before, or one more
C22_StepOfOne(before, after) == after = before \/ after = before + 1

\* C22: items_produced and items_consumed never decrease, each change is an
\* increment by exactly 1, and neither ever exceeds the length of the source
\* list the pipeline was built on.
C22_CountersMonotoneAndBounded ==
    /\ [][/\ C22_StepOfOne(items_produced, items_produced')
          /\ C22_StepOfOne(items_consumed, items_consumed')]_vars
    /\ [](items_produced <= Len(source_data) /\ items_consumed <= Len(source_data))

\* both counters have counted up to a source of two items or more
C22_Witness ==
    /\ Len(source_data) >= 2
    /\ items_produced = Len(source_data)
    /\ items_consumed = Len(source_data)

\* ---- C23: no deadlock ----

\* capacity of 1 or more, and no source item is the sentinel value
C23_Scope ==
    /\ maxsize >= 1
    /\ \A i \in 1..Len(source_data) : source_data[i] # None

\* the producer stands in a put() that cannot complete
C23_ProducerBlockedOnFull == producer_thread \in {"put", "put_sentinel"} /\ QueueFull

\* the consumer stands in a get() that cannot complete
C23_ConsumerBlockedOnEmpty == consumer_thread = "get" /\ ~CanGet

\* both threads have been started
C23_BothStarted == caller \in {"running", "join_consumer", "completed"}

\* C23: for a capacity >= 1 and a source without a sentinel-valued item, in no
\* reachable state is the producer blocked on a full queue while the consumer
\* is blocked on an empty queue or has terminated, and once both threads are
\* started the only state in which neither of them can take a step is the one
\* where both have terminated.
C23_DeadlockFree ==
    C23_Scope =>
        /\ ~(C23_ProducerBlockedOnFull
             /\ (C23_ConsumerBlockedOnEmpty \/ consumer_thread = "terminated"))
        /\ (C23_BothStarted /\ ~ENABLED producer /\ ~ENABLED consumer) => BothTerminated

\* the producer waits with its second item at a full queue of capacity 1, the
\* consumer is about to get
C23_Witness ==
    /\ C23_Scope
    /\ maxsize = 1
    /\ C23_ProducerBlockedOnFull
    /\ producer_thread = "put"
    /\ items_produced = 1
    /\ consumer_thread = "get"

\* ---- C24: the counters relative to each other ----

\* C24: the consumer can count an item before the producer has counted it,
\* but in every reachable state items_consumed <= items_produced + 1, and
\* items_consumed <= items_produced once the producer has terminated.
C24_ConsumedAtMostOneAhead ==
    /\ items_consumed <= items_produced + 1
    /\ producer_thread = "terminated" => items_consumed <= items_produced

\* the consumer has counted the second item, the producer has put it and not
\* yet counted it
C24_Witness ==
    /\ items_consumed = 2
    /\ items_produced = 1
    /\ producer_thread \in {"acquire", "increment"}

\* ---- C25: each counter lags its container by one at most ----

\* items removed from source_container and not yet counted
C25_ProducerLag == (Len(source_data) - Len(source_container)) - items_produced

\* items appended to destination_container and not yet counted
C25_ConsumerLag == Len(destination_container) - items_consumed

\* the producer is not inside an iteration of its loop: not started, at the
\* loop test, past the body's last counter update, or done
C25_ProducerBetweenIterations ==
    producer_thread \in {None, "created", "while", "release", "sleep", "put_sentinel", "terminated"}

\* the consumer is not inside an iteration of its loop: not started, at the
\* get() that opens an iteration, past the counter update, or done
C25_ConsumerBetweenIterations ==
    consumer_thread \in {None, "created", "get", "release", "task_done", "sleep", "terminated"}

\* C25: in every reachable state (len(S) - len(source_container)) -
\* items_produced is 0 or 1 and len(destination_container) - items_consumed
\* is 0 or 1; each difference is 0 whenever its thread is between two
\* iterations of its loop or has terminated.
C25_CounterLagsByOneAtMost ==
    /\ C25_ProducerLag \in {0, 1}
    /\ C25_ConsumerLag \in {0, 1}
    /\ C25_ProducerBetweenIterations => C25_ProducerLag = 0
    /\ C25_ConsumerBetweenIterations => C25_ConsumerLag = 0

\* both threads are inside an iteration with an uncounted item each, after a
\* first item that both have counted
C25_Witness ==
    /\ C25_ProducerLag = 1
    /\ C25_ConsumerLag = 1
    /\ items_produced >= 1
    /\ items_consumed >= 1

\* ---- C26: the queries are read-only ----

\* what a query gives on rows as they were loaded
C26_OnLoadedRows(q, rows) ==
    CASE q[1] = "total_revenue" -> total_revenue(rows)
      [] q[1] = "revenue_by_category" -> revenue_by_category(rows)
      [] q[1] = "revenue_by_region" -> revenue_by_region(rows)
      [] q[1] = "top_products_by_revenue" -> top_products_by_revenue(rows, q[2])
      [] q[1] = "average_transaction_value" -> average_transaction_value(rows)
      [] q[1] = "monthly_revenue_trend" -> monthly_revenue_trend(rows)
      [] q[1] = "quantity_statistics" -> quantity_statistics(rows)
      [] q[1] = "filter_high_value_transactions" ->
             filter_high_value_transactions(rows, q[2])
      [] q[1] = "products_by_region" -> products_by_region(rows)

\* the rows are the enumerated ones: no row has got a key it was not loaded with
C26_RowsAsLoaded == \A i \in 1..Len(data) : data[i] \in Rows

\* C26: every query leaves the loaded rows unchanged (same rows, same order,
\* same fields; monthly_revenue_trend puts year_month on copies only), and
\* what a query returns is what it returns on the rows as loaded, whichever
\* queries ran before it.
C26_QueriesAreReadOnly ==
    /\ [][data' = data /\ result' = C26_OnLoadedRows(query', data)]_vars
    /\ [](C26_RowsAsLoaded)

\* the monthly trend of rows of two months has been computed and the rows are
\* without year_month
C26_Witness ==
    /\ query[1] = "monthly_revenue_trend"
    /\ ~result.raised
    /\ Len(result.value) = 2
    /\ \A i \in 1..Len(data) : "year_month" \notin DOMAIN data[i]

\* ---- C27: get() and task_done() ----

\* the consumer has taken an entry with get() and not yet called task_done()
\* for it
C27_TaskPending ==
    consumer_thread \in {"is_none", "last_task_done", "append", "acquire",
                         "increment", "release", "task_done"}

\* every entry taken is answered by one task_done(): the unfinished tasks are
\* the entries still queued and the one the consumer is working on
C27_OneTaskDonePerGet ==
    unfinished_tasks = Len(shared_queue) + (IF C27_TaskPending THEN 1 ELSE 0)

\* C27: every successful get(), the one that returns the sentinel included, is
\* followed by exactly one task_done() of the consumer; task_done() is never
\* called more often than put(); and when both threads have terminated the
\* queue is empty and its count of unfinished tasks is 0.
C27_QueueAccounting ==
    /\ C27_OneTaskDonePerGet
    /\ unfinished_tasks >= 0
    /\ BothTerminated => (shared_queue = <<>> /\ unfinished_tasks = 0)

====
